---- MODULE Spec2Model ----
(***************************************************************************)
(* A model of lib/changes.js: the Changes consumer of a CouchDB            *)
(* continuous _changes feed (listen), its retry with incremental backoff,  *)
(* and the view pre-fetch (query, queryAndListen).                         *)
(*                                                                         *)
(* Text is a sequence of characters.  A character is a record [c, n]: the  *)
(* line terminator, the opening of an object carrying a sequence number n  *)
(* ({"seq":n or {"last_seq":n), a bare "{", the closing "}", the literal   *)
(* null, and a character "x" that belongs to no JSON value.                *)
(***************************************************************************)
EXTENDS Integers, Sequences, FiniteSets, TLC

\* ------------------------------------------------------------------ bounds
LogLen == 2
MaxRequests == 3
MaxFailures == 7
MaxEmit == 4
MaxMarker == 2

\* the longest text a log delivers: three characters a line
MaxText == 3 * LogLen

\* ------------------------------------------------------- program constants
DefaultMax == 30000
DefaultStep == 2000

\* JavaScript's undefined, as a number no sequence or delay takes
Undefined == -1

\* ------------------------------------------------------------ JavaScript
Truthy(v) == v # Undefined /\ v # 0

\* a || b
Or(a, b) == IF Truthy(a) THEN a ELSE b

Min(a, b) == IF a < b THEN a ELSE b

\* ------------------------------------------------------------------- text
Ch(c, n) == [c |-> c, n |-> n]
NL == Ch("\n", 0)

\* the wire text of one log line of each kind, without its terminator
LineText(l) ==
  CASE l.kind = "seq"   -> << Ch("{seq:", l.seq), Ch("}", 0) >>
    [] l.kind = "last"  -> << Ch("{last_seq:", l.seq), Ch("}", 0) >>
    [] l.kind = "none"  -> << Ch("{", 0), Ch("}", 0) >>
    [] l.kind = "null"  -> << Ch("null", 0) >>
    [] l.kind = "bad"   -> << Ch("x", 0) >>
    [] OTHER            -> << >>

\* rows: the values JSON.parse returns, and undefined
UndefinedRow == [kind |-> "undefined", last_seq |-> Undefined, seq |-> Undefined]
NullRow == [kind |-> "null", last_seq |-> Undefined, seq |-> Undefined]
ObjectRow(last, s) == [kind |-> "object", last_seq |-> last, seq |-> s]

\* !row
Falsy(row) == row.kind # "object"

\* JSON.parse(piece): ok = FALSE is a SyntaxError thrown
JSONParse(piece) ==
  IF Len(piece) = 2 /\ piece[2].c = "}" /\ piece[1].c = "{seq:"
    THEN [ok |-> TRUE, row |-> ObjectRow(Undefined, piece[1].n)]
  ELSE IF Len(piece) = 2 /\ piece[2].c = "}" /\ piece[1].c = "{last_seq:"
    THEN [ok |-> TRUE, row |-> ObjectRow(piece[1].n, Undefined)]
  ELSE IF Len(piece) = 2 /\ piece[2].c = "}" /\ piece[1].c = "{"
    THEN [ok |-> TRUE, row |-> ObjectRow(Undefined, Undefined)]
  ELSE IF Len(piece) = 1 /\ piece[1].c = "null"
    THEN [ok |-> TRUE, row |-> NullRow]
  ELSE [ok |-> FALSE, row |-> UndefinedRow]

\* line.split('\n'): the pieces between terminators, the last one unterminated
RECURSIVE Split(_)
Split(text) ==
  IF \A i \in 1..Len(text) : text[i] # NL
    THEN << text >>
    ELSE LET k == CHOOSE i \in 1..Len(text) :
                    text[i] = NL /\ \A j \in 1..(i - 1) : text[j] # NL
         IN  << SubSeq(text, 1, k - 1) >> \o Split(SubSeq(text, k + 1, Len(text)))

Last(s) == s[Len(s)]

\* ------------------------------------------------------------ the change log
Kinds == {"seq", "none", "null", "bad", "empty"}

\* the number of records carrying a sequence among the first i lines
RECURSIVE SeqCount(_, _)
SeqCount(ks, i) ==
  IF i = 0 THEN 0
  ELSE SeqCount(ks, i - 1) + (IF ks[i] \in {"seq", "last"} THEN 1 ELSE 0)

\* a log: its lines, the records numbered 1, 2, ... in log order
Number(ks) ==
  [i \in 1..Len(ks) |->
     [kind |-> ks[i],
      seq  |-> IF ks[i] \in {"seq", "last"} THEN SeqCount(ks, i) ELSE 0,
      prev |-> SeqCount(ks, i - 1)]]

Logs == { Number(ks) : ks \in [1..LogLen -> Kinds] }

\* the text a connection opened with since=c delivers: the lines after
\* record c, each with its terminator
RECURSIVE Stream(_, _, _)
Stream(lg, c, i) ==
  IF i > Len(lg) THEN << >>
  ELSE (IF lg[i].prev >= c THEN LineText(lg[i]) \o << NL >> ELSE << >>)
       \o Stream(lg, c, i + 1)

\* ------------------------------------------------------------ constructor
Options == [max : {Undefined, 0, 3000, 10000}, step : {Undefined, 20000}]
DefaultOptions == [max |-> Undefined, step |-> Undefined]

\* a constructor that takes max as given, without the default
ChangesNoDefaultMax(options) ==
  [max  |-> options.max,
   step |-> Or(options.step, DefaultStep)]

\* this.timeout after the constructor
Changes(options) ==
  [max  |-> Or(options.max, DefaultMax),
   step |-> Or(options.step, DefaultStep)]

\* ------------------------------------------------------------------ state
VARIABLES
  log,           \* the server's change log
  options,       \* the options the consumer was constructed with
  timeout,       \* this.timeout: max, step
  retry,         \* this.retry: enabled, timeout, attempts
  thisUpdateSeq, \* this.updateSeq
  views,         \* Object.keys(this.views)
  pc,            \* the caller: "new", then the operation it invoked, then
                 \* "listening", "done" or "failed"
  callback,      \* whether the caller passed a callback
  pending,       \* the view requests in flight, each with the response it gets
  query,         \* the closure of query(): updateSeq, and async.forEach's
                 \* completed count and whether it has called back
  reqs,          \* the closures of the feed requests that can still emit events
  sinces,        \* the since= of every feed request opened, in order
  timers,        \* the pending setTimeout reconnects
  limit,         \* the number of feed requests a run opens at most
  changes,       \* the rows of the 'change' events emitted, in order
  notes          \* how often each other notification was made

vars == << log, options, timeout, retry, thisUpdateSeq, views, pc, callback, pending, query,
           reqs, sinces, timers, limit, changes, notes >>

Notes == {"callback()", "callback(err)", "error:changes", "error:views",
          "views", "views:A", "views:B", "TypeError"}

Note(ns, n) == [ns EXCEPT ![n] = @ + 1]

this == [updateSeq |-> thisUpdateSeq]

\* ------------------------------------------------------------------ listen
\* the closure of one listen(updateSeq, callback) call on a consumer whose
\* this.updateSeq is self.updateSeq
listen(self, updateSeq, cb) ==
  LET u == Or(updateSeq, self.updateSeq)
  IN  [since     |-> Or(u, 0),
       updateSeq |-> u,
       callback  |-> cb,
       line      |-> << >>,
       responded |-> FALSE,
       response  |-> FALSE,
       errored   |-> FALSE,
       sent      |-> 0]

\* a 'data' handler without the try: the SyntaxError of a malformed line
\* leaves the handler
RECURSIVE DataLoopThrows(_, _, _, _, _)
DataLoopThrows(parts, i, row, updateSeq, out) ==
  IF i > Len(parts) - 1
    THEN [returned |-> FALSE, updateSeq |-> updateSeq, out |-> out]
  ELSE IF Len(parts[i]) = 0
    THEN DataLoopThrows(parts, i + 1, row, updateSeq, out)
  ELSE LET p == JSONParse(parts[i])
       IN  IF ~p.ok \/ Falsy(p.row)
             THEN [returned |-> TRUE, updateSeq |-> updateSeq, out |-> out]
           ELSE DataLoopThrows(parts, i + 1, p.row,
                               Or(p.row.last_seq, p.row.seq), Append(out, p.row))

\* the for loop of the 'data' handler from parts[i]; row is function-scoped,
\* so a line that fails to parse leaves the row of the line before it
RECURSIVE DataLoop(_, _, _, _, _)
DataLoop(parts, i, row, updateSeq, out) ==
  IF i > Len(parts) - 1
    THEN [returned |-> FALSE, updateSeq |-> updateSeq, out |-> out]
  ELSE IF Len(parts[i]) = 0
    THEN DataLoop(parts, i + 1, row, updateSeq, out)
  ELSE LET p == JSONParse(parts[i])
       IN  IF ~p.ok
             THEN DataLoop(parts, i + 1, row, updateSeq, Append(out, row))
           ELSE IF Falsy(p.row)
             THEN [returned |-> TRUE, updateSeq |-> updateSeq, out |-> out]
           ELSE DataLoop(parts, i + 1, p.row,
                         Or(p.row.last_seq, p.row.seq), Append(out, p.row))

\* a 'data' handler that keeps no text for the next chunk
OnDataDropsRest(r, data) ==
  LET text  == r.line \o data
      parts == Split(text)
      res   == DataLoop(parts, 1, UndefinedRow, r.updateSeq, << >>)
  IN  [line      |-> << >>,
       updateSeq |-> res.updateSeq,
       out       |-> res.out]

\* the 'data' handler on closure r
OnData(r, data) ==
  LET text  == r.line \o data
      parts == Split(text)
      res   == DataLoop(parts, 1, UndefinedRow, r.updateSeq, << >>)
  IN  [line      |-> IF res.returned THEN text ELSE Last(parts),
       updateSeq |-> res.updateSeq,
       out       |-> res.out]

\* the rows the 'end' handler emits for the pending line
OnEnd(line) ==
  IF Len(line) # 0 /\ JSONParse(line).ok THEN << JSONParse(line).row >> ELSE << >>

\* a backoff that never looks at max
BackoffUncapped(retryTimeout, maxTimeout, step) == retryTimeout + step

\* the backoff of the 'error' handler: the new this.retry.timeout
Backoff(retryTimeout, maxTimeout, step) ==
  IF ~Truthy(maxTimeout) \/ (retryTimeout + step) < maxTimeout
    THEN retryTimeout + step
  ELSE IF Truthy(maxTimeout) THEN maxTimeout
  ELSE retryTimeout

\* a respond that does not set responded
respondNoFlag(r, ns, err) ==
  [r      |-> r,
   notes  |-> IF r.callback
                THEN Note(ns, IF err THEN "callback(err)" ELSE "callback()")
                ELSE ns,
   called |-> r.callback]

\* respond(err) on closure r: the closure and the notes after it
respond(r, ns, err) ==
  IF r.responded
    THEN [r |-> r, notes |-> ns, called |-> FALSE]
    ELSE [r      |-> [r EXCEPT !.responded = TRUE],
          notes  |-> IF r.callback
                       THEN Note(ns, IF err THEN "callback(err)" ELSE "callback()")
                       ELSE ns,
          called |-> r.callback]

\* a timer that reconnects without the cursor
TimerNoCursor(updateSeq, retryTimeout) ==
  [updateSeq |-> Undefined, delay |-> retryTimeout]

\* the setTimeout of the 'error' handler
Timer(updateSeq, retryTimeout) == [updateSeq |-> updateSeq, delay |-> retryTimeout]

\* a retry block that does not look at enabled
RetryAlways(rt, tm) ==
  [enabled  |-> rt.enabled,
   timeout  |-> Backoff(rt.timeout, tm.max, tm.step),
   attempts |-> rt.attempts + 1]

\* this.retry after the retry block of the 'error' handler
Retry(rt, tm) ==
  IF rt.enabled
    THEN [enabled  |-> TRUE,
          timeout  |-> Backoff(rt.timeout, tm.max, tm.step),
          attempts |-> rt.attempts + 1]
    ELSE rt

Remove(s, k) == SubSeq(s, 1, k - 1) \o SubSeq(s, k + 1, Len(s))

\* ---------------------------------------------------------------- actions
\* the caller invokes listen(callback) or listen()
Listen ==
  /\ pc = "new"
  /\ \E cb \in BOOLEAN :
       /\ callback' = cb
       /\ reqs' = << listen(this, Undefined, cb) >>
       /\ sinces' = << listen(this, Undefined, cb).since >>
  /\ pc' = "listening"
  /\ UNCHANGED << log, options, timeout, retry, thisUpdateSeq, views, pending, query,
                  timers, limit, changes, notes >>

\* a 'response' that starts the backoff over
ResponseResets(i) ==
  LET r == reqs[i]
      a == respond(r, notes, FALSE)
  IN  /\ ~r.response /\ ~r.errored
      /\ reqs' = [reqs EXCEPT ![i] = [a.r EXCEPT !.response = TRUE]]
      /\ notes' = a.notes
      /\ retry' = [retry EXCEPT !.timeout = 0]
      /\ UNCHANGED << log, options, timeout, thisUpdateSeq, views, pc, callback,
                      pending, query, sinces, timers, limit, changes >>

\* 'response' on request i
Response(i) ==
  LET r == reqs[i]
      a == respond(r, notes, FALSE)
  IN  /\ ~r.response /\ ~r.errored
      /\ reqs' = [reqs EXCEPT ![i] = [a.r EXCEPT !.response = TRUE]]
      /\ notes' = a.notes
      /\ UNCHANGED << log, options, timeout, retry, thisUpdateSeq, views, pc, callback,
                      pending, query, sinces, timers, limit, changes >>

\* 'data' on request i: the next n characters of its stream
Data(i, n) ==
  LET r    == reqs[i]
      data == SubSeq(Stream(log, r.since, 1), r.sent + 1, r.sent + n)
      d    == OnData(r, data)
  IN  /\ r.response /\ ~r.errored
      /\ r.sent + n <= Len(Stream(log, r.since, 1))
      /\ Len(changes) < MaxEmit
      /\ reqs' = [reqs EXCEPT ![i] = [r EXCEPT !.line = d.line,
                                               !.updateSeq = d.updateSeq,
                                               !.sent = r.sent + n]]
      /\ changes' = changes \o d.out
      /\ UNCHANGED << log, options, timeout, retry, thisUpdateSeq, views, pc, callback,
                      pending, query, sinces, timers, limit, notes >>

\* 'end' on request i, which emits nothing after it: the pending line, then
\* self.listen(updateSeq)
End(i) ==
  LET r == reqs[i]
      l == listen(this, r.updateSeq, FALSE)
  IN  /\ r.response
      /\ Len(sinces) < limit
      /\ changes' = changes \o OnEnd(r.line)
      /\ reqs' = Append(Remove(reqs, i), l)
      /\ sinces' = Append(sinces, l.since)
      /\ UNCHANGED << log, options, timeout, retry, thisUpdateSeq, views, pc, callback,
                      pending, query, timers, limit, notes >>

\* 'error' on request i; a callback told of the error may disable the retry.
\* A request that had its response can still end; one that had none is over.
Error(i) ==
  LET r == reqs[i]
      a == respond(r, notes, TRUE)
  IN  /\ ~r.errored
      /\ \E disable \in BOOLEAN :
           LET rt == [retry EXCEPT !.enabled = @ /\ ~(a.called /\ disable)]
           IN  /\ (disable => a.called)
               /\ retry' = Retry(rt, timeout)
               /\ timers' = IF rt.enabled
                              THEN Append(timers, Timer(r.updateSeq, rt.timeout))
                              ELSE timers
      /\ notes' = IF r.responded THEN Note(notes, "error:changes") ELSE a.notes
      /\ reqs' = IF r.response
                   THEN [reqs EXCEPT ![i] = [a.r EXCEPT !.errored = TRUE]]
                   ELSE Remove(reqs, i)
      /\ UNCHANGED << log, options, timeout, thisUpdateSeq, views, pc, callback, pending,
                      query, sinces, limit, changes >>

\* the k-th pending timer fires: self.listen(updateSeq)
TimerFire(k) ==
  LET l == listen(this, timers[k].updateSeq, FALSE)
  IN  /\ Len(sinces) < limit
      /\ reqs' = Append(reqs, l)
      /\ sinces' = Append(sinces, l.since)
      /\ timers' = Remove(timers, k)
      /\ UNCHANGED << log, options, timeout, retry, thisUpdateSeq, views, pc, callback,
                      pending, query, limit, changes, notes >>

\* --------------------------------------------------------------- the views
\* what a view request gets: a transport error, a body that does not parse,
\* or a body that parses to an object with rows and update_seq
ViewResponses ==
  {[err |-> TRUE, ok |-> FALSE, update_seq |-> 0],
   [err |-> FALSE, ok |-> FALSE, update_seq |-> 0]}
  \cup {[err |-> FALSE, ok |-> TRUE, update_seq |-> m] : m \in 1..MaxMarker}

\* body.update_seq: body is the response text, and a string has no such property
BodyUpdateSeq(body) == Undefined

\* updateSeq = body.update_seq || updateSeq || 0
QueryUpdateSeq(body, updateSeq) == Or(Or(BodyUpdateSeq(body), updateSeq), 0)

NewQuery == [updateSeq |-> Undefined, completed |-> 0, joined |-> FALSE]

\* async.forEach after one more iterator has succeeded: all have, and it has
\* not called back yet
AllDoneFirst(q, vs) == ~q.joined

AllDone(q, vs) == ~q.joined /\ q.completed + 1 = Cardinality(vs)

\* the notes after next(err): async.forEach calls back with the first error
\* only, and the callback of query, then of queryAndListen, passes it on
NextErrEvery(q, ns, cb) == Note(ns, IF cb THEN "callback(err)" ELSE "error:views")

NextErr(q, ns, cb) ==
  IF q.joined THEN ns
  ELSE Note(ns, IF cb THEN "callback(err)" ELSE "error:views")

\* the caller invokes query(callback), query() or queryAndListen(callback),
\* queryAndListen(); with no views query calls back at once
Query(op) ==
  /\ pc = "new"
  /\ \E cb \in BOOLEAN :
       /\ callback' = cb
       /\ IF views # {}
            THEN /\ pc' = op
                 /\ pending' \in [views -> ViewResponses]
                 /\ UNCHANGED << reqs, sinces, notes >>
          ELSE IF op = "queryAndListen"
            THEN /\ pc' = "listening"
                 /\ reqs' = << listen(this, Undefined, cb) >>
                 /\ sinces' = << listen(this, Undefined, cb).since >>
                 /\ UNCHANGED << pending, notes >>
          ELSE /\ pc' = "done"
               /\ notes' = Note(notes, IF cb THEN "callback()" ELSE "TypeError")
               /\ UNCHANGED << pending, reqs, sinces >>
  /\ UNCHANGED << log, options, timeout, retry, thisUpdateSeq, views, query, timers,
                  limit, changes >>

\* the response callback of the request for view v
QueryOne(v) ==
  LET body   == pending[v]
      failed == body.err \/ ~body.ok
      u      == QueryUpdateSeq(body, query.updateSeq)
      all    == AllDone(query, views)
      ns     == Note(notes, "views:" \o v)
      l      == listen([updateSeq |-> u], u, callback)
  IN  /\ v \in DOMAIN pending
      /\ pending' = [w \in DOMAIN pending \ {v} |-> pending[w]]
      /\ IF failed
           THEN /\ query' = [query EXCEPT !.joined = TRUE]
                /\ notes' = NextErr(query, notes, callback)
                /\ pc' = IF query.joined THEN pc ELSE "failed"
                /\ UNCHANGED << thisUpdateSeq, reqs, sinces >>
           ELSE /\ query' = [updateSeq |-> u,
                             completed |-> query.completed + 1,
                             joined    |-> query.joined \/ all]
                /\ IF ~all
                     THEN /\ notes' = ns
                          /\ UNCHANGED << thisUpdateSeq, reqs, sinces, pc >>
                   ELSE IF pc = "queryAndListen"
                     THEN /\ thisUpdateSeq' = u
                          /\ notes' = Note(ns, "views")
                          /\ reqs' = << l >>
                          /\ sinces' = << l.since >>
                          /\ pc' = "listening"
                   ELSE /\ thisUpdateSeq' = u
                        /\ notes' = Note(Note(ns, "views"),
                                         IF callback THEN "callback()" ELSE "TypeError")
                        /\ pc' = "done"
                        /\ UNCHANGED << reqs, sinces >>
      /\ UNCHANGED << log, options, timeout, retry, views, callback, timers, limit, changes >>

\* ------------------------------------------------------------ specifications
NoPending == [v \in {} |-> 0]

\* a consumer just constructed with the options, against log lg
Construct(lg, opts, vs, lim) ==
  /\ log = lg
  /\ options = opts
  /\ timeout = Changes(opts)
  /\ retry = [enabled |-> TRUE, timeout |-> 0, attempts |-> 0]
  /\ thisUpdateSeq = 0
  /\ views = vs
  /\ pc = "new"
  /\ callback = FALSE
  /\ pending = NoPending
  /\ query = NewQuery
  /\ reqs = << >>
  /\ sinces = << >>
  /\ timers = << >>
  /\ limit = lim
  /\ changes = << >>
  /\ notes = [n \in Notes |-> 0]

Init == \E lg \in Logs : Construct(lg, DefaultOptions, {"A", "B"}, MaxRequests)

Next ==
  \/ Listen
  \/ \E op \in {"query", "queryAndListen"} : Query(op)
  \/ \E v \in {"A", "B"} : QueryOne(v)
  \/ \E i \in 1..Len(reqs) : Response(i)
  \/ \E i \in 1..Len(reqs), n \in 0..MaxText : Data(i, n)
  \/ \E i \in 1..Len(reqs) : End(i)
  \/ \E i \in 1..Len(reqs) : Error(i)
  \/ \E k \in 1..Len(timers) : TimerFire(k)

Spec == Init /\ [][Next]_vars

\* the retry options against an empty log, over more reconnects
InitBackoff ==
  \E opts \in Options, vs \in {{}, {"A", "B"}} :
    Construct(<< >>, opts, vs, MaxFailures)

SpecBackoff == InitBackoff /\ [][Next]_vars

\* a timer set by setTimeout fires
SpecTimers == Init /\ [][Next]_vars /\ WF_vars(\E k \in 1..Len(timers) : TimerFire(k))

\* ================================================================== claims
\* the sequence numbers of the rows that carry one, in the order emitted
RECURSIVE Sequences(_)
Sequences(rows) ==
  IF rows = << >> THEN << >>
  ELSE (IF Truthy(Or(rows[1].last_seq, rows[1].seq))
          THEN << Or(rows[1].last_seq, rows[1].seq) >> ELSE << >>)
       \o Sequences(Tail(rows))

\* the terminated lines of a text
Lines(text) == SubSeq(Split(text), 1, Len(Split(text)) - 1)

\* the rows of the lines that decode, in order
RECURSIVE Decoded(_)
Decoded(lines) ==
  IF lines = << >> THEN << >>
  ELSE (IF JSONParse(lines[1]).ok THEN << JSONParse(lines[1]).row >> ELSE << >>)
       \o Decoded(Tail(lines))

\* a log of records that all carry a sequence
RecordsOnly == \A k \in 1..Len(log) : log[k].kind = "seq"

\* the since= the next listen(updateSeq) uses
Cursor(updateSeq) == Or(Or(updateSeq, thisUpdateSeq), 0)

\* C1: against a log of sequenced records, every record is emitted as a
\* 'change' event at most once, in log order, and none is skipped: the
\* sequences emitted are 1, 2, 3, ... whatever the chunks, ends, errors and
\* reconnects.
C1_ExactlyOnceInOrder ==
  RecordsOnly =>
    \A k \in 1..Len(Sequences(changes)) : Sequences(changes)[k] = k

\* C2: every connection attempt after the first uses a since= that is not older
\* than the cursor of the attempt before it, nor than the sequence of the last
\* record emitted.
C2_CursorNeverOlder ==
  [][(Len(sinces) >= 1 /\ Len(sinces') = Len(sinces) + 1) =>
       /\ Last(sinces') >= Last(sinces)
       /\ \A k \in 1..Len(Sequences(changes')) :
            Last(sinces') >= Sequences(changes')[k]]_vars

\* C3: once the caller has invoked listen(), the open feed requests and the
\* pending retry timers are never more than one in all.
OpenRequests == { i \in 1..Len(reqs) : ~reqs[i].errored }

C3_OneSession == Cardinality(OpenRequests) + Len(timers) <= 1

\* C4: a graceful end with a pending line that parses to a record carrying
\* seq = s emits one 'change' for that record and reconnects with since=s.
C4_EndAdvancesCursor ==
  [][\A i \in 1..Len(reqs) :
       (/\ End(i)
        /\ Len(reqs[i].line) # 0
        /\ JSONParse(reqs[i].line).ok
        /\ Truthy(JSONParse(reqs[i].line).row.seq)) =>
         /\ changes' = Append(changes, JSONParse(reqs[i].line).row)
         /\ Last(sinces') = JSONParse(reqs[i].line).row.seq]_vars

\* C5: a chunk makes as many 'change' events as it completes lines that
\* decode; a terminated line that is not JSON makes none.  (Stated for the
\* chunks none of whose lines decodes to null.)
C5_NoEventForMalformed ==
  [][\A i \in 1..Len(reqs), n \in 0..MaxText :
       LET text == reqs[i].line
                   \o SubSeq(Stream(log, reqs[i].since, 1),
                             reqs[i].sent + 1, reqs[i].sent + n)
       IN  (/\ Data(i, n)
            /\ \A k \in 1..Len(Decoded(Lines(text))) :
                 ~Falsy(Decoded(Lines(text))[k])) =>
             Len(changes') = Len(changes) + Len(Decoded(Lines(text)))]_vars

\* the cursor the 'data' handler holds after the rows, from cursor u
RECURSIVE CursorAfter(_, _)
CursorAfter(rows, u) ==
  IF rows = << >> THEN u
  ELSE CursorAfter(Tail(rows), Or(rows[1].last_seq, rows[1].seq))

\* a is b with some elements left out
RECURSIVE IsSubSeq(_, _)
IsSubSeq(a, b) ==
  IF a = << >> THEN TRUE
  ELSE IF b = << >> THEN FALSE
  ELSE IF a[1] = b[1] THEN IsSubSeq(Tail(a), Tail(b))
  ELSE IsSubSeq(a, Tail(b))

Malformed(l) == Len(l) # 0 /\ ~JSONParse(l).ok

\* the text request i holds once it is given the next n characters
TextWith(i, n) ==
  reqs[i].line \o SubSeq(Stream(log, reqs[i].since, 1),
                         reqs[i].sent + 1, reqs[i].sent + n)

NoneFalsy(rows) == \A k \in 1..Len(rows) : ~Falsy(rows[k])

\* C6: a malformed line does not raise, does not change the cursor and does
\* not stop the handler: in a chunk with malformed lines the handler runs to
\* its end (the buffer is the unterminated rest), the rows of all the lines
\* that decode are emitted in order, and the cursor is the one those rows
\* alone give; a malformed pending line at a graceful end emits nothing and
\* the reconnect goes out with the cursor held.  (Stated for the chunks none
\* of whose lines decodes to null.)
C6_MalformedIsSkipped ==
  [][\A i \in 1..Len(reqs) :
       /\ \A n \in 0..MaxText :
            LET lines == Lines(TextWith(i, n))
            IN  (/\ Data(i, n)
                 /\ \E k \in 1..Len(lines) : Malformed(lines[k])
                 /\ NoneFalsy(Decoded(lines))) =>
                  /\ reqs'[i].line = Last(Split(TextWith(i, n)))
                  /\ reqs'[i].updateSeq = CursorAfter(Decoded(lines), reqs[i].updateSeq)
                  /\ IsSubSeq(Decoded(lines),
                              SubSeq(changes', Len(changes) + 1, Len(changes')))
       /\ (End(i) /\ Malformed(reqs[i].line)) =>
            /\ changes' = changes
            /\ Len(sinces') = Len(sinces) + 1
            /\ Last(sinces') = Cursor(reqs[i].updateSeq)]_vars

\* C6 witness: a malformed line and the record after it have been handled
C6_Witness ==
  /\ Len(log) >= 2 /\ log[1].kind = "bad" /\ log[2].kind = "seq"
  /\ \E i \in 1..Len(reqs) :
       /\ reqs[i].sent = 5 /\ reqs[i].line = << >>
       /\ reqs[i].updateSeq = log[2].seq
  /\ Len(changes) > 0 /\ Last(changes) = ObjectRow(Undefined, log[2].seq)

\* C7: a line that decodes to a record with neither last_seq nor seq leaves
\* the cursor as it was: the next reconnect uses the cursor held before it.
C7_NoSequenceKeepsCursor ==
  [][\A i \in 1..Len(reqs), n \in 0..MaxText :
       (/\ Data(i, n)
        /\ Decoded(Lines(TextWith(i, n))) = << ObjectRow(Undefined, Undefined) >>
        /\ \A k \in 1..Len(Lines(TextWith(i, n))) :
             ~Malformed(Lines(TextWith(i, n))[k])) =>
         Cursor(reqs'[i].updateSeq) = Cursor(reqs[i].updateSeq)]_vars

\* a transport failure handled with the retry enabled
Failure == retry.attempts' = retry.attempts + 1

\* C8: with max > 0 a failure schedules its reconnect with the delay held
\* before the increment, and stores min(delay + step, max), which never exceeds
\* max; with step 2000 and max 10000 the k-th failure schedules
\* min(2000 (k - 1), 10000): 0, 2000, 4000, 6000, 8000, 10000, 10000.
C8_Backoff ==
  [][(Failure /\ timeout.max > 0) =>
       /\ Len(timers') = Len(timers) + 1
       /\ Last(timers').delay = retry.timeout
       /\ retry.timeout' = Min(retry.timeout + timeout.step, timeout.max)
       /\ retry.timeout' <= timeout.max
       /\ (timeout.step = 2000 /\ timeout.max = 10000) =>
            Last(timers').delay = Min(2000 * retry.attempts, 10000)]_vars

\* C8 witness: the seventh failure in a row with step 2000 and max 10000
C8_Witness ==
  /\ timeout = [max |-> 10000, step |-> 2000]
  /\ retry.attempts = 7 /\ retry.timeout = 10000
  /\ Len(timers) > 0 /\ Last(timers).delay = 10000

MaxAbsent == options.max \in {Undefined, 0}

\* C9 as claimed: constructed with max 0 or absent, every failure grows the
\* stored delay by step, without a ceiling.
C9_Uncapped ==
  [][(Failure /\ MaxAbsent) => retry.timeout' = retry.timeout + timeout.step]_vars

\* C9 amended: constructed with max 0 or absent, this.timeout.max is the
\* default 30000, and every failure stores min(delay + step, 30000).
C9_DefaultCap ==
  [][(Failure /\ MaxAbsent) =>
       /\ timeout.max = DefaultMax
       /\ retry.timeout' = Min(retry.timeout + timeout.step, DefaultMax)]_vars

\* C9 witness: max absent or 0, and the delay has stopped at the default
C9_Witness ==
  /\ MaxAbsent
  /\ retry.attempts >= 3 /\ retry.timeout = DefaultMax

\* C10: when all the views succeed, the cursor query() resolves with
\* (this.updateSeq, and the since= of queryAndListen's feed request) is the
\* update_seq of the response that completed last.
C10_LastMarkerWins ==
  [][\A v \in DOMAIN pending :
       (QueryOne(v) /\ pc' \in {"listening", "done"}) =>
         /\ thisUpdateSeq' = pending[v].update_seq
         /\ pc' = "listening" => sinces' = << pending[v].update_seq >>]_vars

ViewsNotes == {"views", "views:A", "views:B"}

\* C11: in queryAndListen every 'views:<name>' event and the 'views' event are
\* emitted before the feed request is opened, so before any 'change': a step
\* that emits one of them starts with no feed request ever opened and ends
\* with no 'change' emitted, and the step that opens the first feed request
\* after the queries leaves every one of them emitted once.
C11_ViewsBeforeFeed ==
  [][/\ (\E n \in ViewsNotes : notes'[n] # notes[n]) =>
          (sinces = << >> /\ changes' = << >>)
     /\ (pc = "queryAndListen" /\ sinces' # << >>) =>
          \A n \in ViewsNotes : notes'[n] = 1]_vars

\* C11 witness: queryAndListen has emitted the views events and then a 'change'
C11_Witness ==
  /\ pc = "listening" /\ notes["views"] = 1
  /\ notes["views:A"] = 1 /\ notes["views:B"] = 1
  /\ changes # << >>

\* C12: once a view query has failed, the failure has been surfaced once (the
\* callback with the error, or 'error:views' without a callback), 'views' is
\* not emitted, this.updateSeq is as constructed, no feed request is opened and
\* no view request is issued again, whenever the other views complete.
C12_FailFast ==
  [][pc' = "failed" =>
       /\ notes'["callback(err)"] + notes'["error:views"] = 1
       /\ notes'["error:views"] = (IF callback' THEN 0 ELSE 1)
       /\ notes'["views"] = 0
       /\ thisUpdateSeq' = 0
       /\ sinces' = << >> /\ reqs' = << >> /\ timers' = << >>
       /\ DOMAIN pending' \subseteq DOMAIN pending]_vars

\* C12 witness: both views have failed
C12_Witness ==
  /\ pc = "failed" /\ pending = NoPending
  /\ notes["views:A"] = 0 /\ notes["views:B"] = 0

\* C13: the connect callback is invoked at most once in the life of the
\* consumer, without an error or with one, never both.
C13_CallbackOnce == notes["callback()"] + notes["callback(err)"] <= 1

\* C13 witness: the callback was told of the first failure, and two
\* reconnects followed
C13_Witness ==
  /\ notes["callback(err)"] = 1
  /\ Len(sinces) >= 3 /\ retry.attempts >= 2

\* C14: once the caller has disabled the retry in the connect callback that
\* reports the first attempt's failure, no timer is pending, no feed request is
\* open or opened any more, and retry.attempts and retry.timeout are as they
\* were.
C14_DisabledStops ==
  ~retry.enabled =>
    /\ timers = << >> /\ reqs = << >>
    /\ Len(sinces) = 1
    /\ retry.attempts = 0 /\ retry.timeout = 0

\* C14 witness: the callback got the error and disabled the retry
C14_Witness == ~retry.enabled /\ notes["callback(err)"] = 1

\* a log of JSON object records only, with or without a sequence
ObjectsOnly == \A k \in 1..Len(log) : log[k].kind \in {"seq", "none"}

\* the text request i has received so far
Received(i) == SubSeq(Stream(log, reqs[i].since, 1), 1, reqs[i].sent)

\* C15: for a stream of newline-terminated JSON object records, whatever the
\* chunks it arrived in (empty ones and ones that end inside a record
\* included), the first session has emitted exactly the records of the
\* terminated lines received so far, in order, and holds the rest of the text.
C15_SplitIndependent ==
  (ObjectsOnly /\ Len(sinces) = 1 /\ Len(reqs) = 1) =>
    /\ changes = Decoded(Lines(Received(1)))
    /\ reqs[1].line = Last(Split(Received(1)))

\* C15 witness: the first session has received a whole stream of two object
\* records and emitted both
C15_Witness ==
  /\ ObjectsOnly /\ Len(log) = LogLen
  /\ Len(sinces) = 1 /\ Len(reqs) = 1
  /\ reqs[1].sent = Len(Stream(log, reqs[1].since, 1))
  /\ Len(changes) = LogLen

\* C16: every terminated line that decodes emits one 'change' with the decoded
\* value, null included, and the lines after it in the chunk are processed: a
\* 'data' step on a text without a malformed line emits the decoded value of
\* every non-empty terminated line, in order.
C16_EveryDecodedLineEmits ==
  [][\A i \in 1..Len(reqs), n \in 0..MaxText :
       (/\ Data(i, n)
        /\ \A k \in 1..Len(Lines(TextWith(i, n))) :
             ~Malformed(Lines(TextWith(i, n))[k])) =>
         changes' = changes \o Decoded(Lines(TextWith(i, n)))]_vars

\* C17: retry.timeout and retry.attempts change only in the 'error' handler
\* with the retry enabled, and then attempts grows by one and the timeout
\* does not decrease; 'response', 'data', 'end' and its reconnect, the timer,
\* query() and an 'error' with the retry disabled leave both as they are, so
\* the delay is never reset after a successful response.
C17_OnlyErrorChangesRetry ==
  [][/\ (retry.timeout' # retry.timeout \/ retry.attempts' # retry.attempts) =>
          /\ \E i \in 1..Len(reqs) : Error(i)
          /\ retry.enabled'
          /\ retry.attempts' = retry.attempts + 1
     /\ retry.timeout' >= retry.timeout
     /\ ~retry.enabled' =>
          (retry.timeout' = retry.timeout /\ retry.attempts' = retry.attempts)]_vars

\* C17 witness: a reconnect got its response and the delay is still the one
\* the failures left
C17_Witness ==
  /\ retry.attempts >= 2 /\ retry.timeout > 0
  /\ \E i \in 1..Len(reqs) : reqs[i].response /\ ~reqs[i].errored

\* the failure of request i is one of the first attempt, before any response
FirstAttempt(i) == Len(sinces) = 1 /\ ~reqs[i].response

\* C18: every transport failure of every session is surfaced exactly once:
\* with a connect callback given, an 'error' step of the first attempt before
\* its response calls the callback with the error, and every other 'error'
\* step emits one 'error:changes'.
C18_EveryFailureSurfaced ==
  [][\A i \in 1..Len(reqs) : (Error(i) /\ callback) =>
       IF FirstAttempt(i)
         THEN /\ notes'["callback(err)"] = notes["callback(err)"] + 1
              /\ notes'["error:changes"] = notes["error:changes"]
         ELSE /\ notes'["error:changes"] = notes["error:changes"] + 1
              /\ notes'["callback(err)"] = notes["callback(err)"]]_vars

\* C20: the line buffer of every session is the text the session has received
\* after the last line terminator: empty when the session starts, and without
\* a terminator after every 'data'.
C20_BufferIsTail ==
  \A i \in 1..Len(reqs) : reqs[i].line = Last(Split(Received(i)))

\* C19: while the retry is enabled, a failure sets a timer with the delay of
\* this.retry.timeout and the cursor the failing session holds, the timer
\* opens a feed request with that cursor, a pending timer leads to a new feed
\* request (as long as the consumer may open one), and a listening consumer
\* always has an open request or a pending timer.
C19_FailureLeadsToRequest ==
  /\ [][\A i \in 1..Len(reqs) : (Error(i) /\ retry.enabled') =>
          /\ Len(timers') = Len(timers) + 1
          /\ Last(timers') = [updateSeq |-> reqs[i].updateSeq,
                              delay     |-> retry.timeout]]_vars
  /\ [][\A k \in 1..Len(timers) : TimerFire(k) =>
          Last(sinces') = Cursor(timers[k].updateSeq)]_vars
  /\ \A n \in 0..(MaxRequests - 1) :
       (timers # << >> /\ Len(sinces) = n) ~> (Len(sinces) > n)
  /\ [](pc = "listening" /\ retry.enabled =>
          (OpenRequests # {} \/ timers # << >>))

\* C19 witness: the session read the record of sequence 1 and failed, and its
\* timer has opened the request with since=1
C19_Witness ==
  /\ retry.enabled /\ retry.attempts = 1
  /\ timers = << >> /\ sinces = << 0, 1 >>

====
